---- MODULE Spec2Model ----
(***************************************************************************)
(* rss2email (src/rss2email.go): one run reads the feed list, fetches and  *)
(* parses every listed feed and mails each entry that has no seen marker;  *)
(* runs are repeated by an external scheduler and may be killed.           *)
(*                                                                         *)
(* The environment (file system, network, sendmail subprocess, process     *)
(* environment) is drawn nondeterministically at each call that touches    *)
(* it.  The variables below `last` are history variables: they record what *)
(* happened and are never read by an action's guard.                       *)
(***************************************************************************)
EXTENDS Integers, Sequences, FiniteSets, TLC

\* ------------------------------------------------------------------ bounds
\* Runs started by the scheduler.
MaxRuns == 2
\* Lines the scanner yields from the feed list in one run.
MaxLines == 2
\* Successful deliveries counted per identifier (the count saturates here).
MaxCount == 2

\* ------------------------------------------------------- strings as tuples
\* A feed-list line is a tuple of one-character strings.
WS == {" ", "\t"}

RECURSIVE TrimLeft(_)
TrimLeft(s) ==
    IF s # <<>> /\ Head(s) \in WS THEN TrimLeft(Tail(s)) ELSE s

RECURSIVE TrimRight(_)
TrimRight(s) ==
    IF s # <<>> /\ s[Len(s)] \in WS THEN TrimRight(SubSeq(s, 1, Len(s) - 1)) ELSE s

\* A TrimSpace that strips leading white space only.
TrimSpaceLeftOnly(s) == TrimLeft(s)

\* strings.TrimSpace
TrimSpace(s) == TrimRight(TrimLeft(s))

\* strings.HasPrefix
HasPrefix(s, p) == Len(s) >= Len(p) /\ SubSeq(s, 1, Len(p)) = p

\* The lines a feed list is made of in this model.
Lines ==
    { <<>>, <<" ">>, <<"#", "u">>, <<"u">>, <<" ", "v", " ">> }

\* ------------------------------------------------------------ feed entries
\* gofeed.Item, reduced to the fields the control flow and the store read
\* (Title and Content only fill the message body).
ItemA == [GUID |-> "a", Link |-> "http://x/a"]
ItemB == [GUID |-> "b", Link |-> "http://x/b"]
Items == {ItemA, ItemB}
GUIDs == {i.GUID : i \in Items}

\* ---------------------------------------------------------------- SHA-1
\* crypto/sha1 on messages of at most 55 bytes (one block).  A 32-bit word
\* is a pair <<hi, lo>> of 16-bit halves.
Half == 65536

RECURSIVE Xor16(_, _)
Xor16(a, b) ==
    IF a = 0 /\ b = 0 THEN 0
    ELSE (2 * Xor16(a \div 2, b \div 2)) + ((a + b) % 2)

RECURSIVE And16(_, _)
And16(a, b) ==
    IF a = 0 \/ b = 0 THEN 0
    ELSE (2 * And16(a \div 2, b \div 2)) + ((a % 2) * (b % 2))

\* 32-bit words are pairs << high half, low half >>.  An operand is
\* evaluated once, by drawing it from a singleton set, before it is used.
Xor(x, y) ==
    CHOOSE r \in { << Xor16(a[1], b[1]), Xor16(a[2], b[2]) >> :
                     a \in {x}, b \in {y} } : TRUE
And(x, y) ==
    CHOOSE r \in { << And16(a[1], b[1]), And16(a[2], b[2]) >> :
                     a \in {x}, b \in {y} } : TRUE
Or(x, y) ==
    CHOOSE r \in { << a[1] + b[1] - And16(a[1], b[1]),
                       a[2] + b[2] - And16(a[2], b[2]) >> :
                     a \in {x}, b \in {y} } : TRUE
Not(x) ==
    CHOOSE r \in { << Half - 1 - a[1], Half - 1 - a[2] >> : a \in {x} } : TRUE

RECURSIVE Pow2(_)
Pow2(n) == IF n = 0 THEN 1 ELSE 2 * Pow2(n - 1)

\* Rotate left by n bits, 0 < n < 32.
Rotl(x, n) ==
    CHOOSE r \in
        { LET m == n % 16
          IN  IF m = 0 THEN y
              ELSE << ((y[1] * Pow2(m)) % Half) + (y[2] \div Pow2(16 - m)),
                      ((y[2] * Pow2(m)) % Half) + (y[1] \div Pow2(16 - m)) >> :
          y \in { IF n >= 16 THEN << a[2], a[1] >> ELSE a : a \in {x} } } : TRUE

RECURSIVE SumHalf(_, _)
SumHalf(ws, k) == IF ws = <<>> THEN 0 ELSE Head(ws)[k] + SumHalf(Tail(ws), k)

\* The sum of the words of ws modulo 2^32.
Add(ws) ==
    CHOOSE r \in
        { << (SumHalf(v, 1) + (lo \div Half)) % Half, lo % Half >> :
          v \in {ws}, lo \in {SumHalf(ws, 2)} } : TRUE

\* The padded block: the message, 0x80, zeros, and the bit length in the
\* last 8 bytes (of which a message of at most 55 bytes needs two).
Pad(bytes) ==
    LET n == Len(bytes)
    IN  [i \in 1..64 |->
            IF i <= n THEN bytes[i]
            ELSE IF i = n + 1 THEN 128
            ELSE IF i = 63 THEN (8 * n) \div 256
            ELSE IF i = 64 THEN (8 * n) % 256
            ELSE 0]

\* The 16 big-endian words of a 64-byte block.
Words(block) ==
    [t \in 1..16 |->
        << (256 * block[(4 * t) - 3]) + block[(4 * t) - 2],
           (256 * block[(4 * t) - 1]) + block[4 * t] >>]

\* The message schedule w extended to n words.
RECURSIVE Extend(_, _)
Extend(w, n) ==
    IF Len(w) >= n THEN w
    ELSE LET t == Len(w) + 1
         IN  CHOOSE r \in
                 { Extend(v, n) :
                   v \in { Append(w, Rotl(Xor(Xor(w[t - 3], w[t - 8]),
                                              Xor(w[t - 14], w[t - 16])), 1)) } } : TRUE

\* The 80 words of the schedule, built 16 at a time.
Schedule(w) ==
    CHOOSE r \in
        { Extend(w64, 80) :
          w64 \in { Extend(w48, 64) :
          w48 \in { Extend(w32, 48) :
          w32 \in { Extend(w16, 32) :
          w16 \in { << w[1], w[2], w[3], w[4], w[5], w[6], w[7], w[8], w[9],
                       w[10], w[11], w[12], w[13], w[14], w[15], w[16] >> } } } } } : TRUE

\* The round function and constant of round t (0..79).
F(t, b, c, d) ==
    IF t < 20 THEN Or(And(b, c), And(Not(b), d))
    ELSE IF t < 40 THEN Xor(Xor(b, c), d)
    ELSE IF t < 60 THEN Or(Or(And(b, c), And(b, d)), And(c, d))
    ELSE Xor(Xor(b, c), d)

K(t) ==
    IF t < 20 THEN <<23170, 31129>>
    ELSE IF t < 40 THEN <<28377, 60321>>
    ELSE IF t < 60 THEN <<36635, 48348>>
    ELSE <<51810, 49622>>

H0 == << <<26437, 8961>>, <<61389, 43913>>, <<39098, 56574>>,
         <<4146, 21622>>, <<50130, 57840>> >>

\* The working variables <<a, b, c, d, e>> after each round, up to round
\* n - 1: hs[t + 1] is the state before round t.
RECURSIVE Run(_, _, _)
Run(hs, w, n) ==
    IF Len(hs) > n THEN hs
    ELSE LET t == Len(hs) - 1
             h == hs[t + 1]
         IN  CHOOSE r \in
                 { Run(v, w, n) :
                   v \in { Append(hs,
                       << Add(<< Rotl(h[1], 5), F(t, h[2], h[3], h[4]), h[5], K(t),
                                 w[t + 1] >>),
                          h[1], Rotl(h[2], 30), h[3], h[4] >>) } } : TRUE

\* The state after the 80 rounds, run 16 at a time.
Rounds(h, w) ==
    CHOOSE r \in
        { Run(r64, w, 80)[81] :
          r64 \in { Run(r48, w, 64) :
          r48 \in { Run(r32, w, 48) :
          r32 \in { Run(r16, w, 32) :
          r16 \in { Run(<<h>>, w, 16) } } } } } : TRUE

\* hasher.Write + hasher.Sum(nil): the 20 bytes of the digest.
Sha1Sum(bytes) ==
    CHOOSE s \in
        { [j \in 1..20 |->
              LET x == d[(j + 3) \div 4]
                  r == (j - 1) % 4
              IN  IF r = 0 THEN x[1] \div 256
                  ELSE IF r = 1 THEN x[1] % 256
                  ELSE IF r = 2 THEN x[2] \div 256
                  ELSE x[2] % 256] :
          d \in { << Add(<< H0[1], h[1] >>), Add(<< H0[2], h[2] >>),
                     Add(<< H0[3], h[3] >>), Add(<< H0[4], h[4] >>),
                     Add(<< H0[5], h[5] >>) >> :
          h \in { Rounds(H0, w) :
          w \in { Schedule(Words(Pad(bytes))) } } } } : TRUE

HexDigit == << "0", "1", "2", "3", "4", "5", "6", "7",
               "8", "9", "a", "b", "c", "d", "e", "f" >>

\* The two hexadecimal digits of each byte, as a tuple of characters.
HexChars(bytes) ==
    [k \in 1..(2 * Len(bytes)) |->
        LET x == bytes[(k + 1) \div 2]
        IN  HexDigit[(IF k % 2 = 1 THEN x \div 16 ELSE x % 16) + 1]]

RECURSIVE Join(_)
Join(cs) ==
    IF cs = <<>> THEN ""
    ELSE IF Len(cs) = 1 THEN cs[1]
    ELSE LET mid == Len(cs) \div 2
         IN  CHOOSE r \in
                 { Join(x) \o Join(y) :
                   x \in {SubSeq(cs, 1, mid)},
                   y \in {SubSeq(cs, mid + 1, Len(cs))} } : TRUE

\* hex.EncodeToString
EncodeToString(bytes) ==
    CHOOSE r \in { Join(cs) : cs \in { HexChars(b) : b \in {bytes} } } : TRUE

\* []byte(guid), tabulated for the GUIDs of the model (ASCII codes).
Bytes(guid) ==
    CASE guid = "a" -> <<97>>
      [] guid = "b" -> <<98>>
      [] guid = ""  -> <<>>

\* The digests of the GUIDs of the model, computed once.
HashTable ==
    ("" :> EncodeToString(Sha1Sum(Bytes(""))))
        @@ ("a" :> EncodeToString(Sha1Sum(Bytes("a"))))
        @@ ("b" :> EncodeToString(Sha1Sum(Bytes("b"))))

\* A GUID2Hash that uses the GUID itself as the marker name.
GUID2HashRaw(guid) == guid

\* GUID2Hash: the SHA-1 of the GUID in hexadecimal.
GUID2Hash(guid) == HashTable[guid]

Ids == {GUID2Hash(g) : g \in GUIDs}

\* ------------------------------------------------------------ the network
\* Response bodies a server can send.
Bodies == {"garbage", "feedA", "feedAB"}

\* What client.Do / ReadAll can give: a transport error, or a status and a body.
Responses ==
    {[transport |-> "error", status |-> 0, body |-> "garbage"]}
    \cup [transport : {"ok"}, status : {200, 404}, body : Bodies]

\* gofeed's ParseString (an external library), tabulated for Bodies.
ParseString(txt) ==
    CASE txt = "feedA"  -> [err |-> FALSE, Items |-> <<ItemA>>]
      [] txt = "feedAB" -> [err |-> FALSE, Items |-> <<ItemA, ItemB>>]
      [] OTHER          -> [err |-> TRUE, Items |-> <<>>]

Feeds == {b \in Bodies : ~ParseString(b).err}

\* FetchFeed: an error only when the request fails; the status is not read.
FetchFeed(r) ==
    IF r.transport = "error"
    THEN [txt |-> "", err |-> TRUE]
    ELSE [txt |-> r.body, err |-> FALSE]

\* --------------------------------------------------------- seen-state store
\* The store is the directory $HOME/.rss2email/seen: a function from the
\* file names present to their contents.
\* What os.Stat can answer for a name: nil only for a file that is there,
\* ENOENT only for one that is not, and any other error either way.
StatResults(store, sha) ==
    (IF sha \in DOMAIN store THEN {"nil"} ELSE {"ENOENT"}) \cup {"EACCES"}

\* os.IsNotExist
IsNotExist(err) == err = "ENOENT"

\* A HasSeen that answers true only when the lookup succeeded.
HasSeenFailOpen(item, st) == st = "nil"

\* HasSeen: false only when the lookup says the file does not exist.
HasSeen(item, st) ==
    IF IsNotExist(st) THEN FALSE ELSE TRUE

\* What MkdirAll + WriteFile can do: write the file, fail before creating
\* it, or create (truncate) it and fail while writing.
WriteResults == {"ok", "nofile", "partial"}

\* A RecordSeen that writes nothing.
RecordSeenNoop(store, item, w) == store

\* RecordSeen: the store afterwards; both errors are dropped.
RecordSeen(store, item, w) ==
    LET sha == GUID2Hash(item.GUID)
        d1  == IF w = "ok" THEN item.Link ELSE ""
    IN  IF w = "nofile"
        THEN store
        ELSE [x \in DOMAIN store \cup {sha} |-> IF x = sha THEN d1 ELSE store[x]]

\* ------------------------------------------------------------- mail sender
\* What the sendmail subprocess and its pipes do for one message: the first
\* pipe operation that fails (or none), and the exit status of the process.
\* The exit status is observed (or decides anything) only when the message
\* was written in full.
MailEnvs ==
    [pipes : {"stdin", "stdout", "start", "write"}, exit : {1}]
    \cup [pipes : {"ok", "read"}, exit : {0, 1}]

\* With no recipient SendMail returns before it touches the subprocess.
NoEnv == [pipes |-> "unused", exit |-> 1]

\* The message reached the transport: it was written in full and the
\* subprocess exited with status zero.
Delivered(addr, env) ==
    addr # "" /\ env.pipes \in {"ok", "read"} /\ env.exit = 0

\* A SendMail without the recipient check.
SendMailNoAddrCheck(addr, env) ==
    IF env.pipes \in {"stdin", "stdout", "start"}
    THEN [err |-> TRUE, logged |-> TRUE, spawned |-> FALSE]
    ELSE IF env.pipes = "write"
    THEN [err |-> TRUE, logged |-> TRUE, spawned |-> TRUE]
    ELSE [err |-> FALSE, logged |-> env.pipes = "read" \/ env.exit # 0,
          spawned |-> TRUE]

\* SendMail: err is the value returned to the caller, logged whether a line
\* was printed, spawned whether the subprocess was started.
\* A failed Start is not checked; it closes both pipe ends, so the Write
\* that follows fails.
SendMail(addr, env) ==
    IF addr = ""
    THEN [err |-> TRUE, logged |-> TRUE, spawned |-> FALSE]
    ELSE IF env.pipes = "stdin"
    THEN [err |-> TRUE, logged |-> TRUE, spawned |-> FALSE]
    ELSE IF env.pipes = "stdout"
    THEN [err |-> TRUE, logged |-> TRUE, spawned |-> FALSE]
    ELSE IF env.pipes = "start"
    THEN [err |-> TRUE, logged |-> TRUE, spawned |-> FALSE]
    ELSE IF env.pipes = "write"
    THEN [err |-> TRUE, logged |-> TRUE, spawned |-> TRUE]
    ELSE IF env.pipes = "read"
    THEN [err |-> FALSE, logged |-> TRUE, spawned |-> TRUE]
    ELSE IF env.exit # 0
    THEN [err |-> FALSE, logged |-> TRUE, spawned |-> TRUE]
    ELSE [err |-> FALSE, logged |-> FALSE, spawned |-> TRUE]

\* ------------------------------------------------------------------- state
VARIABLES
    pc,        \* where the process is: idle, main, scan, fetch, parse, loop,
               \* send, record, exited
    runs,      \* runs started so far
    home,      \* $HOME of the current run
    logname,   \* $LOGNAME of the current run
    nread,     \* lines the scanner has yielded in the current run
    url,       \* ProcessURL's input
    txt,       \* the body FetchFeed returned
    items,     \* the entries the range loop has still to visit
    cur,       \* the entry being sent and recorded
    seen,      \* the seen-state store: marker name -> contents
    exitCode,  \* exit status of the last run (-1: none yet or still running)
    last,      \* the call made by the last step, with its inputs and results
    mails,     \* per identifier: successful deliveries so far (saturating)
    lost,      \* identifiers with a delivery that was not followed by a marker
    failed,    \* identifiers whose latest delivery attempt did not deliver
    recorded,  \* identifiers RecordSeen has been called for
    written,   \* identifiers whose marker a RecordSeen call has created
    level,     \* the current ProcessURL call so far: clean, sent or none
    now,       \* per feed content: how it was last processed in this run
    prev       \* per feed content: how it was last processed in the previous run

vars ==
    << pc, runs, home, logname, nread, url, txt, items, cur, seen, exitCode,
       last, mails, lost, failed, recorded, written, level, now, prev >>

env  == << home, logname >>
call == << url, txt, items, cur >>
hist == << mails, lost, failed, recorded, written >>
feedhist == << level, now, prev >>

NoItem == [GUID |-> "", Link |-> ""]
Homes == {"", "/home/user"}
Lognames == {"", "user"}

Min(a, b) == IF a < b THEN a ELSE b

\* How a feed content was processed: "clean" (every entry was found marked
\* or was delivered and marked, no failure of any kind), "sent" (no delivery
\* failure, but a marker lookup or a marker write failed), "none" (a delivery
\* failed, or the content was not processed to its end).
Worse(a, b) ==
    IF a = "none" \/ b = "none" THEN "none"
    ELSE IF a = "sent" \/ b = "sent" THEN "sent"
    ELSE "clean"

Init ==
    /\ pc = "idle"
    /\ runs = 0
    /\ home = "/home/user"
    /\ logname = "user"
    /\ nread = 0
    /\ url = <<>>
    /\ txt = ""
    /\ items = <<>>
    /\ cur = NoItem
    /\ seen = << >>
    /\ exitCode = -1
    /\ last = [op |-> "none"]
    /\ mails = [id \in Ids |-> 0]
    /\ lost = {}
    /\ failed = {}
    /\ recorded = {}
    /\ written = {}
    /\ level = "none"
    /\ now = [b \in Feeds |-> "none"]
    /\ prev = [b \in Feeds |-> "none"]

\* The scheduler starts a run; flag parsing is not modelled.
Start ==
    /\ pc \in {"idle", "exited"}
    /\ runs < MaxRuns
    /\ pc' = "main"
    /\ runs' = runs + 1
    /\ home' \in Homes
    /\ logname' \in Lognames
    /\ nread' = 0
    /\ exitCode' = -1
    /\ last' = [op |-> "main"]
    /\ prev' = now
    /\ now' = [b \in Feeds |-> "none"]
    /\ level' = "none"
    /\ UNCHANGED << call, seen, hist >>

\* main: os.Open of $HOME/.rss2email/feeds.  With no $HOME the path is
\* /.rss2email/feeds, which is taken not to exist.
Open ==
    /\ pc = "main"
    /\ \E ok \in BOOLEAN :
        /\ home = "" => ~ok
        /\ IF ok
           THEN /\ pc' = "scan"
                /\ exitCode' = exitCode
           ELSE /\ pc' = "exited"
                /\ exitCode' = 0
        /\ last' = [op |-> "Open", err |-> ~ok, logged |-> ~ok]
    /\ UNCHANGED << runs, env, nread, call, seen, hist, feedhist >>

\* main: one turn of the scanner loop.
Scan ==
    /\ pc = "scan"
    /\ \/ /\ pc' = "exited"
          /\ exitCode' = 0
          /\ last' = [op |-> "Scan", eof |-> TRUE]
          /\ UNCHANGED << nread, url >>
       \/ /\ nread < MaxLines
          /\ \E l \in Lines :
              LET tmp == TrimSpace(l)
                  go  == tmp # <<>> /\ ~HasPrefix(tmp, <<"#">>)
              IN  /\ pc' = IF go THEN "fetch" ELSE "scan"
                  /\ url' = IF go THEN tmp ELSE url
                  /\ last' = [op |-> "Scan", eof |-> FALSE, line |-> l, go |-> go]
          /\ nread' = nread + 1
          /\ exitCode' = exitCode
    /\ UNCHANGED << runs, env, txt, items, cur, seen, hist, feedhist >>

\* A ProcessURL whose fetch-error branch logs and does not return.
FetchNoReturn ==
    /\ pc = "fetch"
    /\ \E r \in Responses :
        LET f == FetchFeed(r)
        IN  /\ pc' = "parse"
            /\ url' = url
            /\ txt' = f.txt
            /\ last' = [op |-> "FetchFeed", resp |-> r, err |-> f.err, logged |-> f.err]
    /\ UNCHANGED << runs, env, nread, items, cur, seen, exitCode, hist, feedhist >>

\* ProcessURL: FetchFeed and its error check.
Fetch ==
    /\ pc = "fetch"
    /\ \E r \in Responses :
        LET f == FetchFeed(r)
        IN  /\ IF f.err
               THEN /\ pc' = "scan"
                    /\ url' = <<>>
                    /\ txt' = txt
               ELSE /\ pc' = "parse"
                    /\ url' = url
                    /\ txt' = f.txt
            /\ last' = [op |-> "FetchFeed", resp |-> r, err |-> f.err, logged |-> f.err]
    /\ UNCHANGED << runs, env, nread, items, cur, seen, exitCode, hist, feedhist >>

\* ProcessURL: ParseString and its error check.
Parse ==
    /\ pc = "parse"
    /\ LET p == ParseString(txt)
       IN  /\ IF p.err
              THEN /\ pc' = "scan"
                   /\ url' = <<>>
                   /\ txt' = ""
                   /\ items' = items
                   /\ level' = level
              ELSE /\ pc' = "loop"
                   /\ url' = url
                   /\ txt' = txt
                   /\ items' = p.Items
                   /\ level' = "clean"
           /\ last' = [op |-> "ParseString", err |-> p.err, logged |-> p.err]
    /\ UNCHANGED << runs, env, nread, cur, seen, exitCode, hist, now, prev >>

\* A range loop that visits the entries from the last one backwards.
LoopFromEnd ==
    /\ pc = "loop"
    /\ \/ /\ items = <<>>
          /\ pc' = "scan"
          /\ now' = [now EXCEPT ![txt] = level]
          /\ level' = "none"
          /\ url' = <<>>
          /\ txt' = ""
          /\ cur' = NoItem
          /\ last' = [op |-> "return"]
          /\ UNCHANGED items
       \/ /\ items # <<>>
          /\ LET i == items[Len(items)]
             IN  \E st \in StatResults(seen, GUID2Hash(i.GUID)) :
                   LET s == HasSeen(i, st)
                   IN  /\ pc' = IF s THEN "loop" ELSE "send"
                       /\ cur' = IF s THEN NoItem ELSE i
                       /\ level' = IF st = "EACCES" THEN Worse(level, "sent") ELSE level
                       /\ last' = [op |-> "HasSeen", id |-> GUID2Hash(i.GUID),
                                   stat |-> st, ret |-> s, logged |-> FALSE]
          /\ items' = SubSeq(items, 1, Len(items) - 1)
          /\ UNCHANGED << url, txt, now >>
    /\ UNCHANGED << runs, env, nread, seen, exitCode, hist, prev >>

\* A range loop whose HasSeen test lacks the negation.
LoopInverted ==
    /\ pc = "loop"
    /\ \/ /\ items = <<>>
          /\ pc' = "scan"
          /\ now' = [now EXCEPT ![txt] = level]
          /\ level' = "none"
          /\ url' = <<>>
          /\ txt' = ""
          /\ cur' = NoItem
          /\ last' = [op |-> "return"]
          /\ UNCHANGED items
       \/ /\ items # <<>>
          /\ LET i == Head(items)
             IN  \E st \in StatResults(seen, GUID2Hash(i.GUID)) :
                   LET s == HasSeen(i, st)
                   IN  /\ pc' = IF s THEN "send" ELSE "loop"
                       /\ cur' = IF s THEN i ELSE NoItem
                       /\ level' = IF st = "EACCES" THEN Worse(level, "sent") ELSE level
                       /\ last' = [op |-> "HasSeen", id |-> GUID2Hash(i.GUID),
                                   stat |-> st, ret |-> s, logged |-> FALSE]
          /\ items' = Tail(items)
          /\ UNCHANGED << url, txt, now >>
    /\ UNCHANGED << runs, env, nread, seen, exitCode, hist, prev >>

\* A range loop that sends every entry, whatever HasSeen answers.
LoopNoCheck ==
    /\ pc = "loop"
    /\ \/ /\ items = <<>>
          /\ pc' = "scan"
          /\ now' = [now EXCEPT ![txt] = level]
          /\ level' = "none"
          /\ url' = <<>>
          /\ txt' = ""
          /\ cur' = NoItem
          /\ last' = [op |-> "return"]
          /\ UNCHANGED items
       \/ /\ items # <<>>
          /\ LET i == Head(items)
             IN  \E st \in StatResults(seen, GUID2Hash(i.GUID)) :
                   LET s == HasSeen(i, st)
                   IN  /\ pc' = "send"
                       /\ cur' = i
                       /\ level' = IF st = "EACCES" THEN Worse(level, "sent") ELSE level
                       /\ last' = [op |-> "HasSeen", id |-> GUID2Hash(i.GUID),
                                   stat |-> st, ret |-> s, logged |-> FALSE]
          /\ items' = Tail(items)
          /\ UNCHANGED << url, txt, now >>
    /\ UNCHANGED << runs, env, nread, seen, exitCode, hist, prev >>

\* ProcessURL: the range loop's next turn, with the HasSeen check (which
\* prints nothing).
Loop ==
    /\ pc = "loop"
    /\ \/ /\ items = <<>>
          /\ pc' = "scan"
          /\ now' = [now EXCEPT ![txt] = level]
          /\ level' = "none"
          /\ url' = <<>>
          /\ txt' = ""
          /\ cur' = NoItem
          /\ last' = [op |-> "return"]
          /\ UNCHANGED items
       \/ /\ items # <<>>
          /\ LET i == Head(items)
             IN  \E st \in StatResults(seen, GUID2Hash(i.GUID)) :
                   LET s == HasSeen(i, st)
                   IN  /\ pc' = IF s THEN "loop" ELSE "send"
                       /\ cur' = IF s THEN NoItem ELSE i
                       /\ level' = IF st = "EACCES" THEN Worse(level, "sent") ELSE level
                       /\ last' = [op |-> "HasSeen", id |-> GUID2Hash(i.GUID),
                                   stat |-> st, ret |-> s, logged |-> FALSE]
          /\ items' = Tail(items)
          /\ UNCHANGED << url, txt, now >>
    /\ UNCHANGED << runs, env, nread, seen, exitCode, hist, prev >>

\* A ProcessURL that calls SendMail again when it returned an error.
SendRetries ==
    /\ pc = "send"
    /\ \E e \in (IF logname = "" THEN {NoEnv} ELSE MailEnvs) :
        LET r  == SendMail(logname, e)
            d  == Delivered(logname, e)
            id == GUID2Hash(cur.GUID)
        IN  /\ pc' = IF r.err THEN "send" ELSE "record"
            /\ cur' = cur
            /\ mails' = [mails EXCEPT ![id] = Min(@ + (IF d THEN 1 ELSE 0), MaxCount)]
            /\ failed' = IF d THEN failed \ {id} ELSE failed \cup {id}
            /\ level' = IF r.err \/ ~d THEN "none" ELSE level
            /\ last' = [op |-> "SendMail", id |-> id, env |-> e, err |-> r.err,
                        logged |-> r.logged, spawned |-> r.spawned, delivered |-> d]
    /\ UNCHANGED << runs, env, nread, url, txt, items, seen, exitCode, lost,
                    recorded, written, now, prev >>

\* ProcessURL: SendMail for an unseen entry.
Send ==
    /\ pc = "send"
    /\ \E e \in (IF logname = "" THEN {NoEnv} ELSE MailEnvs) :
        LET r  == SendMail(logname, e)
            d  == Delivered(logname, e)
            id == GUID2Hash(cur.GUID)
        IN  /\ pc' = IF r.err THEN "loop" ELSE "record"
            /\ cur' = IF r.err THEN NoItem ELSE cur
            /\ mails' = [mails EXCEPT ![id] = Min(@ + (IF d THEN 1 ELSE 0), MaxCount)]
            /\ failed' = IF d THEN failed \ {id} ELSE failed \cup {id}
            /\ level' = IF r.err \/ ~d THEN "none" ELSE level
            /\ last' = [op |-> "SendMail", id |-> id, env |-> e, err |-> r.err,
                        logged |-> r.logged, spawned |-> r.spawned, delivered |-> d]
    /\ UNCHANGED << runs, env, nread, url, txt, items, seen, exitCode, lost,
                    recorded, written, now, prev >>

\* ProcessURL: RecordSeen after SendMail returned nil.  RecordSeen has no
\* result and prints nothing: err and logged are false whatever the write did.
Record ==
    /\ pc = "record"
    /\ \E w \in WriteResults :
        LET id == GUID2Hash(cur.GUID)
        IN  /\ seen' = RecordSeen(seen, cur, w)
            /\ recorded' = recorded \cup {id}
            /\ written' = IF id \in DOMAIN seen' THEN written \cup {id} ELSE written
            /\ lost' = IF last.delivered /\ id \notin DOMAIN seen'
                       THEN lost \cup {id} ELSE lost
            /\ level' = IF w # "ok" THEN Worse(level, "sent") ELSE level
            /\ last' = [op |-> "RecordSeen", id |-> id, write |-> w,
                        err |-> FALSE, logged |-> FALSE]
    /\ pc' = "loop"
    /\ cur' = NoItem
    /\ UNCHANGED << runs, env, nread, url, txt, items, exitCode, mails, failed,
                    now, prev >>

\* The run is killed from outside, between any two steps.
Kill ==
    /\ pc \in {"main", "scan", "fetch", "parse", "loop", "send", "record"}
    /\ pc' = "exited"
    /\ exitCode' = 137
    /\ lost' = IF pc = "record" /\ last.delivered
               THEN lost \cup {GUID2Hash(cur.GUID)} ELSE lost
    /\ url' = <<>>
    /\ txt' = ""
    /\ items' = <<>>
    /\ cur' = NoItem
    /\ level' = "none"
    /\ last' = [op |-> "kill"]
    /\ UNCHANGED << runs, env, nread, seen, mails, failed, recorded, written,
                    now, prev >>

Next ==
    \/ Start
    \/ Open
    \/ Scan
    \/ Fetch
    \/ Parse
    \/ Loop
    \/ Send
    \/ Record
    \/ Kill

Spec == Init /\ [][Next]_vars

\* The steps of a run itself.  Every call a run makes is taken to return:
\* the process is scheduled, the scanner reaches the end of the feeds file,
\* the server and the sendmail subprocess eventually answer.
RunStep ==
    \/ Open
    \/ Scan
    \/ Fetch
    \/ Parse
    \/ Loop
    \/ Send
    \/ Record

FairSpec == Spec /\ WF_vars(RunStep)

\* ------------------------------------------------------------------ claims

\* C1 (as stated): no identifier receives more than one successful delivery.
C1_AtMostOneDelivery ==
    \A id \in Ids : mails[id] <= 1

\* C1 (amended): an identifier receives a second successful delivery only
\* when an earlier successful delivery of it was not followed by its marker:
\* the marker write failed, or the run was killed between send and write.
C1_AtMostOneDeliveryUnlessMarkerLost ==
    \A id \in Ids : mails[id] >= 2 => id \in lost

\* C1 witness: in a later run an entry delivered once, whose marker was
\* written, is checked again and is not sent.
C1_Witness ==
    /\ runs = 2
    /\ last.op = "HasSeen"
    /\ last.ret
    /\ mails[last.id] = 1
    /\ last.id \notin lost

\* C2: a marker exists only for an identifier with a successful delivery,
\* and the marker write is attempted only after a send that succeeded.
C2_MarkerOnlyAfterDelivery ==
    /\ pc = "record" => last.op = "SendMail" /\ last.delivered
    /\ \A id \in DOMAIN seen : mails[id] >= 1

\* C3: an identifier whose latest delivery attempt failed has no marker.
C3_FailedDeliveryLeavesNoMarker ==
    \A id \in failed : id \notin DOMAIN seen

\* C4: SendMail returns an error whenever a pipe operation fails or the
\* subprocess exits non-zero, and nil only when the message was written and
\* the subprocess exited with status zero.
C4_SendMailReportsFailure ==
    (last.op = "SendMail" /\ last.env # NoEnv) =>
        /\ (last.env.pipes # "ok" \/ last.env.exit # 0) => last.err
        /\ ~last.err => (last.env.pipes = "ok" /\ last.env.exit = 0)

\* C5 (as stated): when the previous run processed this feed content with no
\* delivery failure, this run delivers no email for it and writes no marker.
C5_SecondRunDeliversNothing ==
    (\/ last.op = "SendMail" /\ last.delivered
     \/ last.op = "RecordSeen") => prev[txt] = "none"

\* C5 (amended): when the previous run processed this feed content with no
\* delivery failure and no storage failure (no marker lookup error, no
\* marker write failure), this run delivers no email for it and writes no
\* marker.
C5_SecondRunDeliversNothingIfStoreWorked ==
    (\/ last.op = "SendMail" /\ last.delivered
     \/ last.op = "RecordSeen") => prev[txt] # "clean"

\* C5 witness: the two-entry feed was delivered and marked in the first run
\* and the second run went through it without sending.
C5_Witness ==
    /\ runs = 2
    /\ prev["feedAB"] = "clean"
    /\ now["feedAB"] = "clean"
    /\ \A id \in Ids : mails[id] = 1 /\ id \in DOMAIN seen

\* C6 (as stated): once RecordSeen has been called for an identifier, every
\* later HasSeen for it returns true.
C6_SeenAfterRecordSeen ==
    (last.op = "HasSeen" /\ last.id \in recorded) => last.ret

\* C6 (amended): once a RecordSeen call has created the marker of an
\* identifier, every later HasSeen for it, in this run and in later runs,
\* returns true.
C6_SeenAfterMarkerWritten ==
    (last.op = "HasSeen" /\ last.id \in written) => last.ret

\* C6 witness: a marker written in the first run is looked up in the second.
C6_Witness ==
    /\ runs = 2
    /\ last.op = "HasSeen"
    /\ last.id \in written
    /\ last.ret

\* C7: HasSeen returns true only when the marker exists, and returns false,
\* so that a delivery is attempted, whenever the lookup does not succeed.
C7_HasSeenFailOpen ==
    last.op = "HasSeen" =>
        /\ last.ret => last.id \in DOMAIN seen
        /\ last.stat # "nil" => (~last.ret /\ pc = "send")

\* C8: a fetch or parse failure is logged and ends only this ProcessURL
\* call: no mail, no marker, no exit, and the scanner loop goes on with the
\* lines it has not read yet.
C8_FeedFailureConfined ==
    [][ (pc \in {"fetch", "parse"} /\ last'.op \in {"FetchFeed", "ParseString"}
         /\ last'.err)
        => /\ last'.logged
           /\ pc' = "scan"
           /\ nread' = nread
           /\ exitCode' = -1
           /\ seen' = seen
           /\ mails' = mails
           /\ recorded' = recorded ]_vars

\* C8 witness: a fetch has failed and the run is back in the scanner loop
\* with lines left to read.
C8_Witness ==
    /\ pc = "scan"
    /\ last.op = "FetchFeed"
    /\ last.err
    /\ nread < MaxLines

\* C9: FetchFeed fails on a transport error and on every status that is not
\* 2xx, and such a body is not handed to the parser.
C9_Non2xxIsFetchFailure ==
    (last.op = "FetchFeed"
     /\ (last.resp.transport = "error" \/ last.resp.status \notin 200..299))
        => (last.err /\ pc # "parse")

\* C10: when the feed list cannot be opened the run ends at once, before
\* any fetch, mail or marker, with a non-zero exit status.
C10_ConfigErrorExitsNonZero ==
    (last.op = "Open" /\ last.err) => (pc = "exited" /\ exitCode # 0)

\* The non-blank positions of a line.
NonBlank(l) == {i \in 1..Len(l) : l[i] \notin WS}

\* A line the feed list means as a URL: it has a non-blank character and the
\* first one is not "#".
WantedLine(l) ==
    /\ NonBlank(l) # {}
    /\ l[CHOOSE i \in NonBlank(l) : \A j \in NonBlank(l) : i <= j] # "#"

\* The line from its first to its last non-blank character.
TrimmedLine(l) ==
    LET a == CHOOSE i \in NonBlank(l) : \A j \in NonBlank(l) : i <= j
        b == CHOOSE i \in NonBlank(l) : \A j \in NonBlank(l) : i >= j
    IN  SubSeq(l, a, b)

\* C11: every line the scanner yields is handled in its turn: a line with a
\* non-blank character whose first one is not "#" starts ProcessURL on its
\* trimmed form, any other line starts nothing; ProcessURL starts in no other
\* way, and the loop ends only at the end of the list (or by a kill).
C11_DriverPassesTrimmedLines ==
    [][ /\ (pc = "scan" /\ last'.op = "Scan" /\ ~last'.eof)
            => IF WantedLine(last'.line)
               THEN pc' = "fetch" /\ url' = TrimmedLine(last'.line)
               ELSE pc' = "scan"
        /\ (pc # "fetch" /\ pc' = "fetch")
            => (pc = "scan" /\ last'.op = "Scan" /\ ~last'.eof)
        /\ (pc = "scan" /\ pc' = "exited")
            => (last'.op = "kill" \/ (last'.op = "Scan" /\ last'.eof)) ]_vars

\* C11 witness: a line with white space around the URL reached the fetcher
\* trimmed.
C11_Witness ==
    /\ pc = "fetch"
    /\ last.op = "Scan"
    /\ last.line = <<" ", "v", " ">>
    /\ url = <<"v">>

\* C12: every call that met an error printed a log line, and a RecordSeen
\* that could not write the marker reported it to its caller.
C12_EveryErrorLogged ==
    /\ (last.op \in {"Open", "FetchFeed", "ParseString"} /\ last.err)
        => last.logged
    /\ (last.op = "SendMail" /\ ~last.delivered) => last.logged
    /\ (last.op = "HasSeen" /\ last.stat = "EACCES") => last.logged
    /\ (last.op = "RecordSeen" /\ last.write # "ok")
        => (last.err /\ last.logged)

\* C13: in a run with no recipient every SendMail returns an error without
\* starting the subprocess, RecordSeen is never reached and the store and
\* the deliveries stay as they were, while the loop over the entries and the
\* scanner loop go on as usual.
C13_NoRecipientNoSend ==
    [][ /\ logname' = ""
            => /\ pc' # "record"
               /\ last'.op # "RecordSeen"
               /\ last'.op = "SendMail"
                    => (last'.err /\ ~last'.spawned /\ ~last'.delivered)
        /\ (logname = "" /\ pc \notin {"idle", "exited"})
            => /\ seen' = seen
               /\ mails' = mails
               /\ pc = "send" /\ last'.op # "kill"
                    => (pc' = "loop" /\ items' = items /\ nread' = nread
                        /\ txt' = txt /\ exitCode' = -1) ]_vars

\* C13 witness: with no recipient a feed was fetched and parsed, the send for
\* its first entry failed and the loop is about to check the second entry.
C13_Witness ==
    /\ logname = ""
    /\ last.op = "SendMail"
    /\ last.err
    /\ pc = "loop"
    /\ txt = "feedAB"
    /\ items = <<ItemB>>

\* Identifiers that were delivered and whose marker write failed: RecordSeen
\* was called, no call has created the marker, and a successful delivery was
\* left without one.
WriteFailed == (recorded \ written) \cap lost

\* C14: a marker write that fails after a successful delivery does not stop
\* the run, leaves the entry unmarked, and the next check of that entry finds
\* it unseen and sends it again.
C14_WriteFailureRedelivers ==
    /\ (last.op = "RecordSeen" /\ last.write # "ok")
        => (pc = "loop" /\ exitCode = -1)
    /\ \A id \in WriteFailed : id \notin DOMAIN seen
    /\ (last.op = "HasSeen" /\ last.id \in WriteFailed)
        => (~last.ret /\ pc = "send")

\* The digest of every GUID, the empty one included, is 20 bytes and is
\* encoded as 40 characters, each a lowercase hexadecimal digit.
DigestsWellFormed ==
    \A g \in DOMAIN HashTable :
        \A sum \in {Sha1Sum(Bytes(g))} :
            \A cs \in {HexChars(sum)} :
                /\ Len(sum) = 20
                /\ Len(cs) = 40
                /\ \A k \in 1..40 :
                     cs[k] \in {"0", "1", "2", "3", "4", "5", "6", "7", "8", "9",
                                "a", "b", "c", "d", "e", "f"}
                /\ Len(HashTable[g]) = 40

\* C15: the identifier of every GUID is its 40-character lowercase
\* hexadecimal SHA-1 digest, and HasSeen and RecordSeen look the marker up
\* and create it under exactly that name.
C15_IdentifierIsSha1Hex ==
    /\ DigestsWellFormed
    /\ DOMAIN seen \subseteq {HashTable[g] : g \in GUIDs}
    /\ last.op \in {"HasSeen", "SendMail", "RecordSeen"}
        => (Len(last.id) = 40 /\ last.id \in {HashTable[g] : g \in GUIDs})
    /\ (last.op = "HasSeen" /\ last.stat = "nil") => last.id \in DOMAIN seen
    /\ (last.op = "HasSeen" /\ last.stat = "ENOENT") => last.id \notin DOMAIN seen
    /\ (last.op = "RecordSeen" /\ last.write # "nofile") => last.id \in DOMAIN seen

\* C15 witness: RecordSeen has created the marker of GUID "a" under the
\* digest of "a", and a later HasSeen finds it there.
C15_Witness ==
    /\ last.op = "HasSeen"
    /\ last.stat = "nil"
    /\ last.id = HashTable["a"]
    /\ DOMAIN seen = {HashTable["a"]}

\* C16: within a feed the entries are checked in the order the parser
\* returned them, the check of an entry begins only when the previous entry
\* is done with, the entries still to visit are left alone while one is being
\* sent and recorded, and a line is read and a feed fetched only when the
\* previous feed has no entry left.
C16_StrictlySequential ==
    [][ /\ (pc = "loop" /\ items # <<>> /\ pc' # "exited")
            => /\ cur = NoItem
               /\ last'.op = "HasSeen"
               /\ last'.id = HashTable[Head(items).GUID]
               /\ items' = Tail(items)
               /\ pc' = "send" => cur' = Head(items)
        /\ (pc' = "send" /\ pc # "send") => (pc = "loop" /\ items # <<>>)
        /\ (pc \in {"send", "record"} /\ pc' # "exited")
            => /\ items' = items
               /\ pc' \in {"loop", "record"}
               /\ pc' = "record" => (pc = "send" /\ cur' = cur)
        /\ (pc = "loop" /\ pc' = "scan") => items = <<>>
        /\ (pc' = "fetch" /\ pc # "fetch")
            => (pc = "scan" /\ items = <<>> /\ cur = NoItem /\ nread' = nread + 1)
        /\ nread' # nread => (pc \in {"scan", "idle", "exited"})
      ]_vars

\* C16 witness: the second entry of a two-entry feed is about to be sent,
\* after the first was sent and recorded in this run.
C16_Witness ==
    /\ pc = "send"
    /\ cur = ItemB
    /\ txt = "feedAB"
    /\ items = <<>>
    /\ runs = 1
    /\ HashTable["a"] \in written

\* C17: the HasSeen check never changes the store; when it answers true the
\* entry is neither sent nor recorded; and SendMail is only ever reached from
\* a check of that entry that answered false.
C17_SeenEntrySkipped ==
    [][ /\ (pc = "loop" /\ items # <<>> /\ pc' # "exited")
            => /\ seen' = seen
               /\ last'.ret => /\ pc' = "loop"
                               /\ cur' = NoItem
                               /\ mails' = mails
                               /\ failed' = failed
                               /\ recorded' = recorded
        /\ pc' = "send"
            => /\ last'.op = "HasSeen"
               /\ ~last'.ret
               /\ last'.id = HashTable[cur'.GUID]
      ]_vars

\* C17 witness: HasSeen has just answered true for an entry whose marker
\* exists, with another entry still to visit.
C17_Witness ==
    /\ last.op = "HasSeen"
    /\ last.ret
    /\ last.stat = "nil"
    /\ pc = "loop"
    /\ items = << ItemB >>

\* C18: no step removes a marker or changes the contents of an existing one,
\* and RecordSeen is never about to run for an identifier that has a marker.
C18_StoreAppendOnly ==
    [][ /\ \A id \in DOMAIN seen : id \in DOMAIN seen' /\ seen'[id] = seen[id]
        /\ pc = "record" => HashTable[cur.GUID] \notin DOMAIN seen
        /\ pc' = "record" => HashTable[cur'.GUID] \notin DOMAIN seen'
      ]_vars

\* C18 witness: in a second run, with the marker of one entry already in the
\* store, RecordSeen has added the marker of another.
C18_Witness ==
    /\ last.op = "RecordSeen"
    /\ runs = 2
    /\ HashTable["a"] \in DOMAIN seen
    /\ last.id = HashTable["b"]
    /\ last.id \in DOMAIN seen

\* C19: SendMail is about to be called exactly when the latest check, of
\* that entry, answered false; once SendMail has returned, control is at
\* RecordSeen or back at the loop, never at SendMail again; after a SendMail
\* error the next entry of the feed is checked unless the run is killed
\* first; and every run that is started ends.
C19_OneAttemptAndTermination ==
    /\ (pc = "main") ~> (pc = "exited")
    /\ (last.op = "SendMail" /\ last.err /\ items = << ItemB >>)
         ~> ((last.op = "HasSeen" /\ last.id = HashTable["b"]) \/ last.op = "kill")
    /\ [](/\ pc = "send"
              => (last.op = "HasSeen" /\ ~last.ret /\ last.id = HashTable[cur.GUID])
          /\ (last.op = "HasSeen" /\ ~last.ret)
              => (pc = "send" /\ last.id = HashTable[cur.GUID])
          /\ last.op = "SendMail"
              => pc = (IF last.err THEN "loop" ELSE "record"))

\* C19 witness: in one run the delivery of the first entry of a feed failed
\* with an error, and the second entry of the same feed has been delivered.
C19_Witness ==
    /\ last.op = "SendMail"
    /\ last.delivered
    /\ last.id = HashTable["b"]
    /\ txt = "feedAB"
    /\ runs = 1
    /\ HashTable["a"] \in failed
    /\ HashTable["a"] \notin recorded

====
